---- MODULE Spec2Model ----
(***************************************************************************)
(* Model of two kernels of the Shark linear-algebra library:               *)
(*   - kernels::trsv            (LinAlg/BLAS/kernels/trsv.hpp)              *)
(*   - bindings::matrix_assign* (LinAlg/BLAS/kernels/clblas/               *)
(*                               matrix_assign.hpp)                        *)
(* Four specifications share the module: SpecTrsv (the triangular solve    *)
(* and its dispatch), SpecRowRow (the scalar and the same-layout           *)
(* assignment kernels), SpecTile (the host side of the tiled cross-layout  *)
(* assignment) and SpecIndex (the index expressions of its kernel text).   *)
(***************************************************************************)
EXTENDS Integers, Sequences, FiniteSets, TLC

VARIABLES
    \* ---- kernels::trsv ----
    A,          \* coefficient matrix: [size1, size2, at]
    b,          \* right-hand side / solution vector: [size, at]
    b0,         \* b as the caller passed it
    A0,         \* A as the caller passed it
    Upper,      \* template flag
    Unit,       \* template flag
    useCblas,   \* build configuration: SHARK_USE_CBLAS defined
    typePair,   \* the pair <MatA, V> the template is instantiated with
    pcT,        \* "call" | "done" | "failed"
    calls,      \* sequence of implementations invoked, with their arguments
    areads,     \* set of index pairs of A read by the invoked implementation
    \* ---- matrix_assign, matrix_assign_functor ----
    M,          \* destination matrix: [size1, size2, at]
    E,          \* source matrix expression: [size1, size2, at]
    M0,         \* destination as the caller passed it
    F,          \* the combining functor
    t,          \* the scalar of the scalar assignment
    pcK,        \* host side: "call_*" | "running_*" | "failed" | "compile_failed" | "enqueue_failed"
    compiled,   \* number of calls of meta_kernel::compile
    gws,        \* global work size of the ND-range
    lws,        \* local work size of the ND-range
    wi,         \* work-item state: global id -> [pc]
    wcount,     \* number of writes each destination element has received
    oob,        \* set of out-of-bounds accesses made so far
    \* ---- index expressions of the cross-layout kernel ----
    probe,      \* what is evaluated: a work-item and loop value, or a destination element
    acc         \* the coordinates the expressions evaluate to

trsvVars == <<A, b, b0, A0, Upper, Unit, useCblas, typePair, pcT, calls, areads>>
kernVars == <<M, E, M0, F, t, pcK, compiled, gws, lws, wi, wcount, oob, probe, acc>>
vars == <<trsvVars, kernVars>>

(***************************************************************************)
(* Bounds of the model.                                                    *)
(***************************************************************************)
MaxN == 2          \* matrix / vector extents of the trsv inputs are 1..MaxN
MaxDim == 3        \* row and column counts of the same-layout assignment are 1..MaxDim

(***************************************************************************)
(* value_type arithmetic.  A value is <<num, den>> with den >= 0:          *)
(* den > 0 is the rational num/den in lowest terms, <<1,0>> and <<-1,0>>   *)
(* are +inf and -inf, <<0,0>> is NaN.                                      *)
(***************************************************************************)
Abs(x) == IF x < 0 THEN -x ELSE x
Sgn(x) == IF x < 0 THEN -1 ELSE IF x > 0 THEN 1 ELSE 0

RECURSIVE Gcd(_, _)
Gcd(x, y) == IF y = 0 THEN x ELSE Gcd(y, x % y)

Norm(n, d) ==
    IF d = 0 THEN <<Sgn(n), 0>>
    ELSE LET g == Gcd(Abs(n), Abs(d))
         IN  <<Sgn(d) * (n \div g), Abs(d) \div g>>

RInt(k) == <<k, 1>>
Zero == RInt(0)
One == RInt(1)
NaN == <<0, 0>>
IsFinite(x) == x[2] > 0

RMul(x, y) == Norm(x[1] * y[1], x[2] * y[2])
RAdd(x, y) ==
    IF x[2] = 0 /\ y[2] = 0
    THEN (IF x = y THEN x ELSE NaN)
    ELSE Norm(x[1] * y[2] + y[1] * x[2], x[2] * y[2])
RNeg(x) == <<-x[1], x[2]>>
RSub(x, y) == RAdd(x, RNeg(y))
RDiv(x, y) ==
    LET s == IF y[1] < 0 THEN -1 ELSE 1
    IN  Norm(x[1] * y[2] * s, x[2] * Abs(y[1]))

(***************************************************************************)
(* Matrix and vector expressions: size queries and element access.         *)
(***************************************************************************)
Idx(s1, s2) == (0 .. s1 - 1) \X (0 .. s2 - 1)
Mat(s1, s2, f) == [size1 |-> s1, size2 |-> s2, at |-> f]
Vec(n, f) == [size |-> n, at |-> f]

(***************************************************************************)
(* bindings::has_optimized_trsv<M1, M2>.  Without SHARK_USE_CBLAS the      *)
(* header defines the trait as false for every pair of types; with it the  *)
(* cblas binding header decides, opting in the pairs in OptimizedPairs.    *)
(***************************************************************************)
TypePairs == {"dense_double", "dense_int"}
OptimizedPairs == {"dense_double"}

\* mutant: the fallback trait derives from true_
has_optimized_trsv_default_true(pair) == TRUE
has_optimized_trsv_default(pair) == FALSE
has_optimized_trsv_cblas(pair) == pair \in OptimizedPairs
has_optimized_trsv(cblas, pair) ==
    IF cblas THEN has_optimized_trsv_cblas(pair)
    ELSE has_optimized_trsv_default(pair)

(***************************************************************************)
(* The default algorithm (default/trsv.hpp): sequential substitution.      *)
(* A solver state st is [b, reads]: the vector so far and the entries of A *)
(* read so far.                                                            *)
(***************************************************************************)
RECURSIVE RowDot(_, _, _, _, _)
RowDot(Am, bv, i, lo, hi) ==
    IF lo > hi THEN Zero
    ELSE RAdd(RMul(Am.at[<<i, lo>>], bv[lo]), RowDot(Am, bv, i, lo + 1, hi))

SolveRow(Am, st, i, lo, hi, unit) ==
    LET v == RSub(st.b[i], RowDot(Am, st.b, i, lo, hi))
        x == IF unit THEN v ELSE RDiv(v, Am.at[<<i, i>>])
    IN  [b     |-> [st.b EXCEPT ![i] = x],
         reads |-> st.reads \cup {<<i, j>> : j \in lo .. hi}
                            \cup (IF unit THEN {} ELSE {<<i, i>>})]

\* Upper = false: rows in increasing order, row i uses b[0..i)
RECURSIVE SolveLower(_, _, _, _)
SolveLower(Am, st, i, unit) ==
    IF i >= Am.size1 THEN st
    ELSE SolveLower(Am, SolveRow(Am, st, i, 0, i - 1, unit), i + 1, unit)

\* Upper = true: rows in decreasing order, row i uses b(i..n)
RECURSIVE SolveUpper(_, _, _, _)
SolveUpper(Am, st, i, unit) ==
    IF i < 0 THEN st
    ELSE SolveUpper(Am, SolveRow(Am, st, i, i + 1, Am.size1 - 1, unit), i - 1, unit)

trsv_default(Am, bv, upper, unit) ==
    LET st0 == [b |-> bv.at, reads |-> {}]
    IN  IF upper THEN SolveUpper(Am, st0, Am.size1 - 1, unit)
        ELSE SolveLower(Am, st0, 0, unit)

(***************************************************************************)
(* The optimized binding (cblas/trsv.hpp) is an external routine with the  *)
(* pre- and postconditions of the default algorithm.                       *)
(***************************************************************************)
trsv_optimized(Am, bv, upper, unit) == trsv_default(Am, bv, upper, unit)

(***************************************************************************)
(* bindings::trsv<Upper,Unit>(A, b, tag): overload selection on the tag.   *)
(***************************************************************************)
bindings_trsv(Am, bv, upper, unit, tag) ==
    IF tag
    THEN [impl |-> "optimized", res |-> trsv_optimized(Am, bv, upper, unit)]
    ELSE [impl |-> "default", res |-> trsv_default(Am, bv, upper, unit)]

CallRec(impl, Am, bv, upper, unit) ==
    [impl |-> impl, A |-> Am, b |-> bv, Upper |-> upper, Unit |-> unit]

(***************************************************************************)
(* SIZE_CHECK(cond): the precondition macro.  A false condition is a       *)
(* fail-fast precondition error; the statements after it do not run.       *)
(***************************************************************************)
SIZE_CHECK(cond) == cond

(***************************************************************************)
(* kernels::trsv<Upper,Unit>(A, b)                                         *)
(***************************************************************************)
TrsvFail ==
    /\ pcT' = "failed"
    /\ UNCHANGED <<b, calls, areads>>

TrsvDispatch(upper, unit) ==
    LET tag == has_optimized_trsv(useCblas, typePair)
        r   == bindings_trsv(A, b, upper, unit, tag)
    IN  /\ calls' = Append(calls, CallRec(r.impl, A, b, upper, unit))
        /\ b' = [b EXCEPT !.at = r.res.b]
        /\ areads' = r.res.reads
        /\ pcT' = "done"

TrsvFrame ==
    /\ UNCHANGED <<A, b0, A0, Upper, Unit, useCblas, typePair>>
    /\ UNCHANGED kernVars

\* mutant: the binding is entered before the size checks are made
trsv_dispatch_before_check ==
    /\ pcT = "call"
    /\ IF ~SIZE_CHECK(A.size1 = A.size2) \/ ~SIZE_CHECK(A.size1 = b.size)
       THEN /\ calls' = Append(calls, CallRec("default", A, b, Upper, Unit))
            /\ pcT' = "failed"
            /\ UNCHANGED <<b, areads>>
       ELSE TrsvDispatch(Upper, Unit)
    /\ TrsvFrame

\* mutant: the template arguments are forwarded in the wrong order
trsv_swapped_flags ==
    /\ pcT = "call"
    /\ IF ~SIZE_CHECK(A.size1 = A.size2) THEN TrsvFail
       ELSE IF ~SIZE_CHECK(A.size1 = b.size) THEN TrsvFail
       ELSE TrsvDispatch(Unit, Upper)
    /\ TrsvFrame

\* mutant: the Unit flag is not forwarded
trsv_ignores_unit ==
    /\ pcT = "call"
    /\ IF ~SIZE_CHECK(A.size1 = A.size2) THEN TrsvFail
       ELSE IF ~SIZE_CHECK(A.size1 = b.size) THEN TrsvFail
       ELSE TrsvDispatch(Upper, FALSE)
    /\ TrsvFrame

trsv ==
    /\ pcT = "call"
    /\ IF ~SIZE_CHECK(A.size1 = A.size2) THEN TrsvFail
       ELSE IF ~SIZE_CHECK(A.size1 = b.size) THEN TrsvFail
       ELSE TrsvDispatch(Upper, Unit)
    /\ TrsvFrame

(***************************************************************************)
(* Inputs of the triangular solve.                                         *)
(***************************************************************************)
DiagVals == {0, 1, 2}
OffVals == {-1, 2}
BVals == {1, 3}

Min(x, y) == IF x < y THEN x ELSE y

InputMatrices(s1, s2) ==
    { Mat(s1, s2, [p \in Idx(s1, s2) |->
                     RInt(IF p[1] = p[2] THEN d[p[1]] ELSE o[p])]) :
        d \in [0 .. Min(s1, s2) - 1 -> DiagVals],
        o \in [{p \in Idx(s1, s2) : p[1] # p[2]} -> OffVals] }

InputVectors(n) == { Vec(n, [i \in 0 .. n - 1 |-> RInt(v[i])]) : v \in [0 .. n - 1 -> BVals] }

\* The two worked examples of the documentation.
ScenarioLower ==
    [A |-> Mat(2, 2, [p \in Idx(2, 2) |->
                RInt(CASE p = <<0, 0>> -> 2 [] p = <<0, 1>> -> 0
                       [] p = <<1, 0>> -> 3 [] p = <<1, 1>> -> 4)]),
     b |-> Vec(2, [i \in 0 .. 1 |-> RInt(IF i = 0 THEN 4 ELSE 23)]),
     Upper |-> FALSE, Unit |-> FALSE]
ScenarioUpper ==
    [A |-> Mat(2, 2, [p \in Idx(2, 2) |->
                RInt(CASE p = <<0, 0>> -> 1 [] p = <<0, 1>> -> 5
                       [] p = <<1, 0>> -> 0 [] p = <<1, 1>> -> 1)]),
     b |-> Vec(2, [i \in 0 .. 1 |-> RInt(IF i = 0 THEN 11 ELSE 3)]),
     Upper |-> TRUE, Unit |-> TRUE]
Scenarios == {ScenarioLower, ScenarioUpper}

TrsvInputs ==
    Scenarios \cup
    UNION { [A : InputMatrices(s[1], s[2]), b : InputVectors(s[3]),
             Upper : BOOLEAN, Unit : BOOLEAN] : s \in (1 .. MaxN) \X (1 .. MaxN) \X (1 .. MaxN) }

TrsvInit ==
    /\ \E in \in TrsvInputs :
         /\ A = in.A /\ A0 = in.A
         /\ b = in.b /\ b0 = in.b
         /\ Upper = in.Upper /\ Unit = in.Unit
    /\ useCblas \in BOOLEAN
    /\ typePair \in TypePairs
    /\ pcT = "call"
    /\ calls = <<>>
    /\ areads = {}

TrsvIdle ==
    /\ A = Mat(0, 0, <<>>) /\ A0 = A
    /\ b = Vec(0, <<>>) /\ b0 = b
    /\ Upper = FALSE /\ Unit = FALSE
    /\ useCblas = FALSE /\ typePair = "dense_double"
    /\ pcT = "idle" /\ calls = <<>> /\ areads = {}

Val(n) == <<"v", n>>
NoProbe == [kind |-> "none"]

KernIdle ==
    /\ M = Mat(0, 0, <<>>) /\ M0 = M /\ E = M
    /\ F = "assigner" /\ t = Val(0) /\ pcK = "idle" /\ compiled = 0
    /\ gws = <<0, 0>> /\ lws = <<0, 0>>
    /\ wi = <<>> /\ wcount = <<>> /\ oob = {}
    /\ probe = NoProbe /\ acc = NoProbe

InitTrsv == TrsvInit /\ KernIdle
NextTrsv == trsv
SpecTrsv == InitTrsv /\ [][NextTrsv]_vars

(***************************************************************************)
(* Properties of kernels::trsv.                                            *)
(***************************************************************************)
\* T: the triangle of Am selected by upper, zero on the other side, and a
\* diagonal of 1 when unit
TriEntry(Am, upper, unit, i, j) ==
    IF i = j THEN (IF unit THEN One ELSE Am.at[<<i, i>>])
    ELSE IF (upper /\ j > i) \/ (~upper /\ j < i) THEN Am.at[<<i, j>>]
    ELSE Zero

RECURSIVE TriRowTimes(_, _, _, _, _, _)
TriRowTimes(Am, upper, unit, x, i, j) ==
    IF j >= Am.size2 THEN Zero
    ELSE RAdd(RMul(TriEntry(Am, upper, unit, i, j), x[j]),
              TriRowTimes(Am, upper, unit, x, i, j + 1))

TriTimes(Am, upper, unit, x) ==
    [i \in 0 .. Am.size1 - 1 |-> TriRowTimes(Am, upper, unit, x, i, 0)]

Regular(Am) == \A i \in 0 .. Am.size1 - 1 : Am.at[<<i, i>>] # Zero

WithDiag(Am, d) ==
    [Am EXCEPT !.at = [p \in DOMAIN Am.at |-> IF p[1] = p[2] THEN d ELSE Am.at[p]]]

DimMismatch == A0.size1 # A0.size2 \/ A0.size1 # b0.size

\* C1: after trsv returns, T * b equals the b the caller passed, for every
\* Upper and Unit (non-zero diagonal when Unit is false); the two worked
\* examples give x = [2, 17/4] and x = [-4, 3].
C1_SolveMultipliesBack ==
    (pcT = "done" /\ (Unit \/ Regular(A0))) =>
        /\ TriTimes(A0, Upper, Unit, b.at) = b0.at
        /\ (A0 = ScenarioLower.A /\ b0 = ScenarioLower.b /\ ~Upper /\ ~Unit)
              => b.at = [i \in 0 .. 1 |-> IF i = 0 THEN <<2, 1>> ELSE <<17, 4>>]
        /\ (A0 = ScenarioUpper.A /\ b0 = ScenarioUpper.b /\ Upper /\ Unit)
              => b.at = [i \in 0 .. 1 |-> IF i = 0 THEN <<-4, 1>> ELSE <<3, 1>>]

C1_Witness ==
    /\ pcT = "done" /\ A0 = ScenarioLower.A /\ b0 = ScenarioLower.b
    /\ ~Upper /\ ~Unit
    /\ b.at[1] = <<17, 4>>

\* C3: with Unit = true no diagonal entry of A is read, A is not written, and
\* the result is the one obtained for the same A with a diagonal of 1 or of 0.
C3_UnitIgnoresDiagonal ==
    (pcT = "done" /\ Unit) =>
        /\ \A p \in areads : p[1] # p[2]
        /\ A = A0
        /\ \A d \in {Zero, One} :
             b.at = bindings_trsv(WithDiag(A0, d), b0, Upper, TRUE,
                                  has_optimized_trsv(useCblas, typePair)).res.b

C3_Witness ==
    /\ pcT = "done" /\ Unit /\ A0.size1 = 2
    /\ \A i \in 0 .. 1 : A0.at[<<i, i>>] = Zero
    /\ b # b0

\* C4: when A is not square or its extent differs from the length of b, the
\* call fails, no implementation is invoked and b is left as it was.
C4_MismatchFailsFast ==
    (pcT # "call" /\ DimMismatch) =>
        (pcT = "failed" /\ calls = <<>> /\ b = b0 /\ areads = {})

C4_Witness ==
    /\ pcT = "failed" /\ A0.size1 = A0.size2 /\ A0.size1 # b0.size

\* C7: a call that passes the size checks runs exactly one implementation,
\* once, with the caller's arguments: the optimized binding exactly when the
\* build has bindings and the type pair is opted in, the default otherwise.
C7_ExactlyOneImplementation ==
    (pcT # "call" /\ ~DimMismatch) =>
        /\ pcT = "done"
        /\ Len(calls) = 1
        /\ calls[1] = CallRec(calls[1].impl, A0, b0, Upper, Unit)
        /\ calls[1].impl \in {"optimized", "default"}
        /\ calls[1].impl = "optimized" <=> (useCblas /\ typePair \in OptimizedPairs)
        /\ ~useCblas => calls[1].impl = "default"

C7_Witness ==
    /\ pcT = "done" /\ ~useCblas /\ typePair \in OptimizedPairs
    /\ Len(calls) = 1 /\ calls[1].impl = "default"

(***************************************************************************)
(* The combining functor F.  detail::assigner is the functor of plain      *)
(* assignment; "plus" is the functor of +=.  An element value is Val(n).   *)
(* An out-of-bounds read yields Indet, which stands for any value.         *)
(***************************************************************************)
Indet == <<"indeterminate">>
Functors == {"assigner", "plus"}

assigner(x, y) == y

Apply(f, x, y) ==
    IF f = "assigner" THEN assigner(x, y)
    ELSE IF x = Indet \/ y = Indet THEN Indet
    ELSE Val(x[2] + y[2])

InBounds(Xm, r, c) == r >= 0 /\ r < Xm.size1 /\ c >= 0 /\ c < Xm.size2
\* element read: in bounds the stored value, out of bounds any value
ReadAt(Xm, r, c) == IF InBounds(Xm, r, c) THEN Xm.at[<<r, c>>] ELSE Indet
\* element write: in bounds the element is replaced
WriteAt(Xm, r, c, v) ==
    IF InBounds(Xm, r, c) THEN [Xm EXCEPT !.at[<<r, c>>] = v] ELSE Xm
OobOf(name, Xm, r, c) == IF InBounds(Xm, r, c) THEN {} ELSE {<<name, r, c>>}

(***************************************************************************)
(* OpenCL work-item intrinsics for the ND-range <<gws, lws>>.              *)
(***************************************************************************)
get_global_id(g, d) == g[d + 1]
get_local_size(d) == lws[d + 1]
get_group_id(g, d) == g[d + 1] \div lws[d + 1]
get_local_id(g, d) == g[d + 1] % lws[d + 1]
GroupOf(g) == <<get_group_id(g, 0), get_group_id(g, 1)>>

Ready(grid) == [g \in Idx(grid[1], grid[2]) |-> [pc |-> "ready"]]

\* what a work-item of an elementwise kernel does to the destination:
\* m(r, c) = v
StoreElement(g, r, c, v, more) ==
    /\ M' = WriteAt(M, r, c, v)
    /\ wcount' = IF InBounds(M, r, c) THEN [wcount EXCEPT ![<<r, c>>] = @ + 1]
                 ELSE wcount
    /\ oob' = oob \cup OobOf("m", M, r, c) \cup more
    /\ wi' = [wi EXCEPT ![g].pc = "done"]

(***************************************************************************)
(* Scalar assignment: matrix_assign<F>(m, t, row_major, dense_tag)         *)
(***************************************************************************)
global_work_size_constant(rows, cols) == <<rows, cols>>

\* The arguments of the kernel text: the scalar 't', declared by add_arg.
KernelArgsConstant == {"t"}
\* The arguments that have a value when k.compile builds the kernel object:
\* add_arg declares 't' without a value, and set_arg is called on k only
\* after the kernel object exists, so it no longer reaches that object.
ArgsSetBeforeCompile == {}
\* the enqueue of a kernel succeeds when all its arguments have a value
EnqueueSucceedsConstant == KernelArgsConstant \subseteq ArgsSetBeforeCompile

matrix_assign_constant ==
    /\ pcK = "call_constant"
    /\ compiled' = compiled + 1
    /\ IF EnqueueSucceedsConstant
       THEN /\ gws' = global_work_size_constant(M.size1, M.size2)
            /\ lws' = <<0, 0>>      \* local_work_size is nullptr
            /\ wi' = Ready(gws')
            /\ pcK' = "running_constant"
       ELSE \* the enqueue error is propagated to the caller
            /\ pcK' = "enqueue_failed"
            /\ UNCHANGED <<gws, lws, wi>>
    /\ UNCHANGED <<M, E, M0, F, t, wcount, oob, probe, acc>>
    /\ UNCHANGED trsvVars

(***************************************************************************)
(* Same layout: matrix_assign_functor(m, e, row_major, row_major, ...)     *)
(***************************************************************************)
\* mutant: the work-size grid is given as (cols, rows)
global_work_size_row_row_swapped(rows, cols) == <<cols, rows>>
global_work_size_row_row(rows, cols) == <<rows, cols>>

matrix_assign_functor_row_row ==
    /\ pcK = "call_row_row"
    /\ compiled' = compiled + 1
    /\ gws' = global_work_size_row_row(M.size1, M.size2)
    /\ lws' = <<0, 0>>      \* local_work_size is nullptr
    /\ wi' = Ready(gws')
    /\ pcK' = "running_row_row"
    /\ UNCHANGED <<M, E, M0, F, t, wcount, oob, probe, acc>>
    /\ UNCHANGED trsvVars

\* m(id0, id1) = f(m(id0, id1), e(id0, id1))
kernel_row_row(g) ==
    /\ pcK = "running_row_row"
    /\ g \in DOMAIN wi /\ wi[g].pc = "ready"
    /\ LET exprRow == get_global_id(g, 0)
           exprCol == get_global_id(g, 1)
       IN  StoreElement(g, exprRow, exprCol,
                        Apply(F, ReadAt(M, exprRow, exprCol), ReadAt(E, exprRow, exprCol)),
                        OobOf("e", E, exprRow, exprCol))
    /\ UNCHANGED <<E, M0, F, t, pcK, compiled, gws, lws, probe, acc>>
    /\ UNCHANGED trsvVars

(***************************************************************************)
(* Cross layout: matrix_assign_functor(m, e, row_major, column_major, ...) *)
(***************************************************************************)
TILE_DIM == 32
BLOCK_COLS == 8

\* mutant: the column count is checked against the row count's remainder
SizeChecksRowCol_rows_twice(Mm) ==
    SIZE_CHECK(Mm.size1 % TILE_DIM = 0) /\ SIZE_CHECK(Mm.size1 % TILE_DIM = 0)
SizeChecksRowCol(Mm) ==
    SIZE_CHECK(Mm.size1 % TILE_DIM = 0) /\ SIZE_CHECK(Mm.size2 % TILE_DIM = 0)

\* The kernel text: the declaration of the tile is streamed without a
\* terminating ';' and without a blank after "__local", and the next
\* statement follows it directly.
KernelTextWellFormed == FALSE
\* The build options "-DTILE_DIM = 32": the blanks split the definition in
\* three words, of which "=" and "32" are no options.
BuildOptionsWellFormed == FALSE
\* k.compile(context, options) returns a kernel for a well-formed text and
\* well-formed options, and fails otherwise
CompileSucceeds == KernelTextWellFormed /\ BuildOptionsWellFormed

global_work_size_row_col(rows, cols) == <<rows, (cols * BLOCK_COLS) \div TILE_DIM>>
local_work_size_row_col == <<TILE_DIM, BLOCK_COLS>>

matrix_assign_functor_row_col ==
    /\ pcK = "call_row_col"
    /\ IF ~SizeChecksRowCol(M)
       THEN /\ pcK' = "failed"
            /\ UNCHANGED <<compiled, gws, lws, wi>>
       ELSE /\ compiled' = compiled + 1
            /\ IF CompileSucceeds
               THEN /\ gws' = global_work_size_row_col(M.size1, M.size2)
                    /\ lws' = local_work_size_row_col
                    /\ wi' = Ready(gws')
                    /\ pcK' = "running_row_col"
               ELSE \* the compilation failure is propagated to the caller
                    /\ pcK' = "compile_failed"
                    /\ UNCHANGED <<gws, lws, wi>>
    /\ UNCHANGED <<M, E, M0, F, t, wcount, oob, probe, acc>>
    /\ UNCHANGED trsvVars

(***************************************************************************)
(* The index expressions the generator writes into the kernel text, as     *)
(* functions of a work-item g of the ND-range and the loop variable i,     *)
(* with TILE_DIM standing for 32 as the build options mean it to.          *)
(***************************************************************************)
\* __local value_type tile[TILE_DIM][TILE_DIM+1]
TileCells == Idx(TILE_DIM, TILE_DIM + 1)
InTile(cell) == cell \in TileCells

base_row(g) == get_group_id(g, 0) * TILE_DIM
base_col(g) == get_group_id(g, 1) * TILE_DIM
row_exp(g, i) == base_row(g) + get_local_id(g, 1) + i
col_exp(g, i) == base_row(g) + get_local_id(g, 1) + i
copy_cell(g, i) == <<get_local_id(g, 1) + i, get_local_id(g, 0)>>
read_cell(g, i) == <<get_local_id(g, 0), get_local_id(g, 1) + i>>
target_row(g, i) == base_row(g) + get_local_id(g, 0)
\* mutant: the write-out column does not advance with the loop variable
target_col_without_i(g, i) == base_col(g) + get_local_id(g, 1)
target_col(g, i) == base_col(g) + get_local_id(g, 1) + i

\* the values of i in "for(uint i = 0 ; i < TILE_DIM; i += get_local_size(1))"
LoopValues == {i \in 0 .. TILE_DIM - 1 : i % get_local_size(1) = 0}
Iterations == Idx(gws[1], gws[2]) \X LoopValues

\* the indices of one iteration of the two loops of work-item g at loop
\* value i; feeds: the source elements that the copy-in loops of g's group
\* put into the tile cell g reads
eval_work_item ==
    /\ pcK = "index_probe" /\ probe.kind = "item"
    /\ LET g == probe.g
           i == probe.i
       IN  acc' = [kind   |-> "item",
                   e      |-> <<row_exp(g, i), col_exp(g, i)>>,
                   copy   |-> copy_cell(g, i),
                   read   |-> read_cell(g, i),
                   target |-> <<target_row(g, i), target_col(g, i)>>,
                   feeds  |-> { <<row_exp(w[1], w[2]), col_exp(w[1], w[2])>> :
                                  w \in { v \in Iterations :
                                            /\ GroupOf(v[1]) = GroupOf(g)
                                            /\ copy_cell(v[1], v[2]) = read_cell(g, i) } }]
    /\ pcK' = "index_evaluated"
    /\ UNCHANGED <<M, E, M0, F, t, compiled, gws, lws, wi, wcount, oob, probe>>
    /\ UNCHANGED trsvVars

\* the iterations of the write-out loop whose target is a given element
eval_element ==
    /\ pcK = "index_probe" /\ probe.kind = "element"
    /\ acc' = [kind    |-> "element",
               writers |-> { v \in Iterations :
                               <<target_row(v[1], v[2]), target_col(v[1], v[2])>>
                                   = probe.cell }]
    /\ pcK' = "index_evaluated"
    /\ UNCHANGED <<M, E, M0, F, t, compiled, gws, lws, wi, wcount, oob, probe>>
    /\ UNCHANGED trsvVars

(***************************************************************************)
(* Inputs of the assignment kernels.  The source holds a different value   *)
(* in every element; the destination holds other values.                   *)
(***************************************************************************)
SourceMatrix(s1, s2) ==
    Mat(s1, s2, [p \in Idx(s1, s2) |-> Val(1 + p[1] * s2 + p[2])])
DestMatrix(s1, s2) ==
    Mat(s1, s2, [p \in Idx(s1, s2) |-> Val(0 - 2 * (p[1] + p[2]) - 1)])
Scalars == {Val(7)}

KernInit(entry, s1, s2, f) ==
    /\ M = DestMatrix(s1, s2) /\ M0 = M
    /\ E = SourceMatrix(s1, s2)
    /\ F = f
    /\ t \in Scalars
    /\ pcK = entry /\ compiled = 0
    /\ gws = <<0, 0>> /\ lws = <<0, 0>>
    /\ wi = <<>>
    /\ wcount = [p \in Idx(s1, s2) |-> 0]
    /\ oob = {}
    /\ probe = NoProbe /\ acc = NoProbe

\* the scalar assignment and the same-layout assignment
InitRowRow ==
    /\ TrsvIdle
    /\ \E s1 \in 1 .. MaxDim, s2 \in 1 .. MaxDim, f \in Functors,
          entry \in {"call_row_row", "call_constant"} :
         KernInit(entry, s1, s2, f)
NextRowRow ==
    \/ matrix_assign_functor_row_row
    \/ \E g \in DOMAIN wi : kernel_row_row(g)
    \/ matrix_assign_constant
SpecRowRow == InitRowRow /\ [][NextRowRow]_vars

\* the cross-layout assignment: row and column counts that are and that are
\* not multiples of TILE_DIM
TileExtents == {16, 32, 33, 48, 50, 64}
InitTile ==
    /\ TrsvIdle
    /\ \E s1 \in TileExtents, s2 \in TileExtents, f \in Functors :
         KernInit("call_row_col", s1, s2, f)
NextTile == matrix_assign_functor_row_col
SpecTile == InitTile /\ [][NextTile]_vars

\* the index expressions over the ND-range of the cross-layout kernel, for
\* shapes the size checks accept
AcceptedShapes == {<<32, 32>>, <<64, 32>>, <<32, 64>>}
InitIndex ==
    /\ TrsvIdle
    /\ \E s \in AcceptedShapes :
         /\ M = DestMatrix(s[1], s[2]) /\ M0 = M
         /\ E = SourceMatrix(s[1], s[2])
         /\ gws = global_work_size_row_col(s[1], s[2])
         /\ lws = local_work_size_row_col
         /\ probe \in [kind : {"item"}, g : Idx(gws[1], gws[2]), i : LoopValues]
                      \cup [kind : {"element"}, cell : Idx(s[1], s[2])]
    /\ F = "assigner" /\ t = Val(0)
    /\ pcK = "index_probe" /\ compiled = 0
    /\ wi = <<>> /\ wcount = <<>> /\ oob = {}
    /\ acc = NoProbe
NextIndex == eval_work_item \/ eval_element
SpecIndex == InitIndex /\ [][NextIndex]_vars

(***************************************************************************)
(* Properties of the assignment kernels.                                   *)
(***************************************************************************)
AllDone == wi # <<>> /\ \A g \in DOMAIN wi : wi[g].pc = "done"
Cells == Idx(M0.size1, M0.size2)
Expected(cell) == Apply(F, M0.at[cell], E.at[cell])
Evaluated(kind) == pcK = "index_evaluated" /\ acc.kind = kind

\* C6: the same-layout kernel is enqueued on the grid (rows, columns); the
\* work-item (i, j) writes M(i, j) only, and in any order of the work-items
\* each element it has written holds F(M_before(i,j), E(i,j)), which is E(i,j)
\* for plain assignment; the other elements are untouched.
C6_SameLayoutElementwise ==
    (pcK = "running_row_row") =>
        /\ gws = <<M0.size1, M0.size2>>
        /\ DOMAIN wi = Cells
        /\ oob = {}
        /\ \A cell \in Cells :
             /\ wi[cell].pc = "done" =>
                  (M.at[cell] = Expected(cell) /\ wcount[cell] = 1)
             /\ wi[cell].pc = "ready" =>
                  (M.at[cell] = M0.at[cell] /\ wcount[cell] = 0)
             /\ (wi[cell].pc = "done" /\ F = "assigner") => M.at[cell] = E.at[cell]

C6_Witness ==
    /\ pcK = "running_row_row" /\ AllDone
    /\ M0.size1 = 2 /\ M0.size2 = 3 /\ F = "plus"
    /\ M.at[<<1, 2>>] = Val(M0.at[<<1, 2>>][2] + E.at[<<1, 2>>][2])

\* C2: the element the cross-layout kernel combines into M(i,j) is E(i,j):
\* the tile cell read for a target was filled from the source element at the
\* target's coordinates, so that the result is F(M_before(i,j), E(i,j)).
C2_TiledAssignElementwise ==
    Evaluated("item") => acc.feeds = {acc.target}

\* C5: a destination whose row or column count is not a multiple of TILE_DIM
\* is rejected: the call fails, no kernel is compiled or enqueued, no
\* work-item runs and M is left as it was.
C5_TileDivisibilityFailsFast ==
    (pcK # "call_row_col" /\ (M0.size1 % TILE_DIM # 0 \/ M0.size2 % TILE_DIM # 0)) =>
        /\ pcK = "failed"
        /\ compiled = 0
        /\ gws = <<0, 0>> /\ wi = <<>>
        /\ M = M0
        /\ \A cell \in Cells : wcount[cell] = 0

C5_Witness ==
    /\ pcK = "failed" /\ M0.size1 = 50 /\ M0.size2 = 50 /\ M = M0 /\ compiled = 0

\* C9: over the ND-range (R, C*BLOCK_COLS/TILE_DIM) with groups of
\* (TILE_DIM, BLOCK_COLS), every destination element is the target of exactly
\* one iteration of one work-item's write-out loop.
C9_DisjointCompleteWrites ==
    Evaluated("element") => Cardinality(acc.writers) = 1

C9_Witness ==
    /\ Evaluated("element") /\ M0.size1 = 32 /\ M0.size2 = 64
    /\ probe.cell = <<5, 49>>
    /\ acc.writers = {<<(<<5, 9>>), 16>>}

\* C10: for every accepted shape the indices of every work-item are in
\* bounds: tile cells, destination accesses and source accesses.
C10_IndicesInBounds ==
    Evaluated("item") =>
        /\ InTile(acc.copy) /\ InTile(acc.read)
        /\ InBounds(M, acc.target[1], acc.target[2])
        /\ InBounds(E, acc.e[1], acc.e[2])

====
